---- MODULE Spec2Model ----
(***************************************************************************)
(* Model of the Airtable dump pipeline of macthemes.garden-data:           *)
(*   src/dump-airtable.ts   (variant "dump":  attachments + archive mirror)*)
(*   src/unnamed/part_000   (variant "part0": attachments only)            *)
(*                                                                         *)
(* JavaScript strings are modelled as tuples of one-character strings, so  *)
(* that toLowerCase, endsWith, split and trim are computed and not assumed.*)
(* An optional value (T | undefined) is a set with at most one element:    *)
(* {} is undefined, {v} is the value v.                                    *)
(***************************************************************************)
EXTENDS Integers, Sequences, FiniteSets, TLC

\* ------------------------------------------------------------------------
\* Bounds of the model
\* ------------------------------------------------------------------------
MaxRecords == 2
MaxRuns == 2

\* ------------------------------------------------------------------------
\* Strings
\* ------------------------------------------------------------------------
Uppers == << "A","B","C","D","E","F","G","H","I","J","K","L","M",
             "N","O","P","Q","R","S","T","U","V","W","X","Y","Z" >>
Lowers == << "a","b","c","d","e","f","g","h","i","j","k","l","m",
             "n","o","p","q","r","s","t","u","v","w","x","y","z" >>

\* the lower-case letter of every upper-case letter
UpperToLower ==
  [ c \in { Uppers[i] : i \in 1..Len(Uppers) } |->
      Lowers[CHOOSE i \in 1..Len(Uppers) : Uppers[i] = c] ]

LowerChar(c) == IF c \in DOMAIN UpperToLower THEN UpperToLower[c] ELSE c

\* String.prototype.toLowerCase
ToLowerCase(s) == [i \in 1..Len(s) |-> LowerChar(s[i])]

\* String.prototype.endsWith
EndsWith(s, suf) ==
  /\ Len(s) >= Len(suf)
  /\ SubSeq(s, Len(s) - Len(suf) + 1, Len(s)) = suf

\* String.prototype.startsWith
StartsWith(s, pre) ==
  /\ Len(s) >= Len(pre)
  /\ SubSeq(s, 1, Len(pre)) = pre

Whitespace == {" ", "\t", "\n"}

\* s.split(" ")[0]: the text before the first space character
SplitSpaceFirst(s) ==
  IF \E i \in 1..Len(s) : s[i] = " "
  THEN SubSeq(s, 1, (CHOOSE i \in 1..Len(s) :
                       /\ s[i] = " "
                       /\ \A j \in 1..(i-1) : s[j] # " ") - 1)
  ELSE s

\* String.prototype.trim
Trim(s) ==
  IF \A i \in 1..Len(s) : s[i] \in Whitespace
  THEN << >>
  ELSE LET lo == CHOOSE i \in 1..Len(s) :
                   /\ s[i] \notin Whitespace
                   /\ \A j \in 1..(i-1) : s[j] \in Whitespace
           hi == CHOOSE i \in 1..Len(s) :
                   /\ s[i] \notin Whitespace
                   /\ \A j \in (i+1)..Len(s) : s[j] \in Whitespace
       IN SubSeq(s, lo, hi)

\* ------------------------------------------------------------------------
\* Optional values and JavaScript truthiness
\* ------------------------------------------------------------------------
Undefined == {}
Some(v) == {v}
Val(o) == CHOOSE v \in o : TRUE

\* !!v for a string | undefined: undefined and "" are falsy
Truthy(o) == \E v \in o : v # << >>

\* ------------------------------------------------------------------------
\* Literals of the source
\* ------------------------------------------------------------------------
DotSit == << ".","s","i","t" >>
DotPng == << ".","p","n","g" >>
Hyphen == << "-" >>
Slash == "/"

AboutPrefix == << "a","b","o","u","t","-" >>
KsaPrefix == << "k","s","a","-","s","a","m","p","l","e","r","-" >>
ShowcasePrefix == << "s","h","o","w","c","a","s","e","-" >>

\* the directory the glob of both scripts lists
GlobDir == << "p","u","b","l","i","c","/","t","h","e","m","e","s","/",
              "a","t","t","a","c","h","m","e","n","t","s","/" >>

\* the directory downloadAttachment of dump-airtable.ts writes into
DumpAttachmentsDir == << "a","t","t","a","c","h","m","e","n","t","s","/" >>

\* the directory downloadAttachment of part_000 writes into
Part0AttachmentsDir == GlobDir

AttachmentsDir(v) == IF v = "dump" THEN DumpAttachmentsDir ELSE Part0AttachmentsDir

\* ------------------------------------------------------------------------
\* Record Normalizer: records.map(...) of main
\* ------------------------------------------------------------------------
\* (record.fields[X] as Airtable.Attachment[])?.[0]
FirstOf(arr) == IF Len(arr) >= 1 THEN Some(arr[1]) ELSE Undefined

\* new Date(...) is an object, hence truthy whatever the raw field holds
DateOf(raw) == Some(<< "D" >> \o (IF raw = Undefined THEN << >> ELSE Val(raw)))

NormalizeRecord(raw) ==
  [ name             |-> raw.Name,
    authors          |-> raw.Authors,
    year             |-> raw.Year,
    about            |-> FirstOf(raw.About),
    showcase         |-> FirstOf(raw.Showcase),
    archiveFile      |-> FirstOf(raw.ArchiveFile),
    archiveFileName2 |-> raw.ArchiveName2,
    ksaSampler       |-> FirstOf(raw.KsaSampler),
    created          |-> DateOf(raw.Created) ]

NormalizedRecords(raws) == [i \in 1..Len(raws) |-> NormalizeRecord(raws[i])]

\* ------------------------------------------------------------------------
\* Attachment Fetcher: the deterministic path of downloadAttachment
\* ------------------------------------------------------------------------
\* the three downloadAttachment calls of a record task, in call order
Roles == 1..3
RolePrefix(r) == CASE r = 1 -> AboutPrefix
                   [] r = 2 -> KsaPrefix
                   [] r = 3 -> ShowcasePrefix
RoleAttachment(rec, r) == CASE r = 1 -> rec.about
                            [] r = 2 -> rec.ksaSampler
                            [] r = 3 -> rec.showcase

\* mutant: only the original filename is lowercased
FileNameIdAsGiven(prefix, att) == prefix \o att.id \o Hyphen \o ToLowerCase(att.filename)

\* `${prefix}${attachment.id}-${attachment.filename}`.toLowerCase()
FileName(prefix, att) == ToLowerCase(prefix \o att.id \o Hyphen \o att.filename)

\* `attachments/${filename}` resp. `public/themes/attachments/${filename}`
FilePath(v, prefix, att) == AttachmentsDir(v) \o FileName(prefix, att)

\* the value downloadAttachment returns
Descriptor(v, prefix, att) ==
  [ id |-> att.id, filepath |-> FilePath(v, prefix, att), filename |-> att.filename ]

\* fs.globSync("public/themes/attachments/*.png") over the files on disk
GlobSync(files) ==
  { p \in files :
      /\ StartsWith(p, GlobDir)
      /\ EndsWith(p, DotPng)
      /\ \A i \in (Len(GlobDir)+1)..Len(p) : p[i] # Slash }

\* ------------------------------------------------------------------------
\* Record-to-Asset Resolver
\* ------------------------------------------------------------------------
\* filePaths.find((f) => f.id === att?.id)?.filepath
FindPath(fps, att) ==
  IF att = Undefined \/ ~ \E k \in 1..Len(fps) : fps[k].id = Val(att).id
  THEN Undefined
  ELSE Some(fps[CHOOSE k \in 1..Len(fps) :
                  /\ fps[k].id = Val(att).id
                  /\ \A j \in 1..(k-1) : fps[j].id # Val(att).id].filepath)

\* mutant: the fallback name is taken whatever the attachment's extension
ArchiveNameFallbackFirst(rec) ==
  IF Truthy(rec.archiveFileName2) THEN rec.archiveFileName2
  ELSE IF rec.archiveFile # Undefined /\ EndsWith(Val(rec.archiveFile).filename, DotSit)
       THEN Some(Val(rec.archiveFile).filename)
       ELSE Undefined

\* (archiveFile?.filename?.endsWith(".sit") ? archiveFile.filename
\*                                          : archiveFileName2) || undefined
ArchiveName(rec) ==
  LET chosen == IF rec.archiveFile # Undefined
                   /\ EndsWith(Val(rec.archiveFile).filename, DotSit)
                THEN Some(Val(rec.archiveFile).filename)
                ELSE rec.archiveFileName2
  IN IF Truthy(chosen) THEN chosen ELSE Undefined

ResolveRecord(rec, fps) ==
  [ name             |-> rec.name,
    authors          |-> rec.authors,
    year             |-> rec.year,
    about            |-> FindPath(fps, rec.about),
    showcase         |-> FindPath(fps, rec.showcase),
    archiveFilename  |-> ArchiveName(rec),
    archiveFileName2 |-> rec.archiveFileName2,
    ksaSampler       |-> FindPath(fps, rec.ksaSampler),
    created          |-> rec.created ]

\* .filter((f) => !!f && Object.values(f).filter((v) => !!v).length)
HasTruthyValue(f) ==
  \/ Truthy(f.name) \/ Truthy(f.authors) \/ Truthy(f.year)
  \/ Truthy(f.about) \/ Truthy(f.showcase) \/ Truthy(f.ksaSampler)
  \/ Truthy(f.archiveFilename) \/ Truthy(f.archiveFileName2)
  \/ f.created # Undefined

\* mutant: the year/authors condition is forgotten
IsValidNoYearAuthors(f) ==
  /\ Truthy(f.name)
  /\ Truthy(f.about)
  /\ Truthy(f.showcase)
  /\ Truthy(f.archiveFilename)
  /\ Truthy(f.ksaSampler)

\* the validity filter
IsValid(f) ==
  /\ Truthy(f.name)
  /\ (Truthy(f.year) \/ Truthy(f.authors))
  /\ Truthy(f.about)
  /\ Truthy(f.showcase)
  /\ Truthy(f.archiveFilename)
  /\ Truthy(f.ksaSampler)

Reverse(s) == [i \in 1..Len(s) |-> s[Len(s) + 1 - i]]

\* mutant: the resolved records come out in reverse order
NormalizedRecordsWithFilePathsReversed(recs, fps) ==
  LET mapped == [i \in 1..Len(recs) |-> ResolveRecord(recs[i], fps)]
      Keep(f) == HasTruthyValue(f) /\ IsValid(f)
  IN Reverse(SelectSeq(mapped, Keep))

\* normalizedRecords.map(...).filter(...).filter(...)
NormalizedRecordsWithFilePaths(recs, fps) ==
  LET mapped == [i \in 1..Len(recs) |-> ResolveRecord(recs[i], fps)]
      Keep(f) == HasTruthyValue(f) /\ IsValid(f)
  IN SelectSeq(mapped, Keep)

\* ------------------------------------------------------------------------
\* Filesystem Reconciler
\* ------------------------------------------------------------------------
\* flatMap((r) => [r.about, r.ksaSampler, r.showcase]), as the set of its values
AllFiles(res) ==
  UNION { res[i].about \cup res[i].ksaSampler \cup res[i].showcase : i \in 1..Len(res) }

\* mutant: the whole listing is deleted
FilesToDeleteAll(existing, res) == existing

\* mutant: the negation of the filter is lost
FilesToDeleteInverted(existing, res) ==
  { f \in existing : f # << >> /\ f \in AllFiles(res) }

\* existingAttachments.filter(Boolean).filter((file) => !allFiles.includes(file))
FilesToDelete(existing, res) ==
  { f \in existing : f # << >> /\ f \notin AllFiles(res) }

\* ------------------------------------------------------------------------
\* Archive Mirror: pure parts
\* ------------------------------------------------------------------------
\* mutant: compact without uniq
ArchivesNotUniq(res) ==
  LET names == [i \in 1..Len(res) |-> res[i].archiveFilename]
      named == SelectSeq(names, Truthy)
  IN [k \in 1..Len(named) |-> Val(named[k])]

\* uniq(compact(res.map((r) => r.archiveFilename))), in order of first occurrence
Archives(res) ==
  LET names == [i \in 1..Len(res) |-> res[i].archiveFilename]
      First(i) == Truthy(names[i]) /\ \A j \in 1..(i-1) : names[j] # names[i]
      idx == { i \in 1..Len(res) : First(i) }
      Nth(k) == CHOOSE i \in idx : Cardinality({ j \in idx : j < i }) = k - 1
  IN [k \in 1..Cardinality(idx) |-> Val(names[Nth(k)])]

\* md5FileContent.split(" ")[0]?.trim()
Md5Remote(md5FileContent) == Trim(SplitSpaceFirst(md5FileContent))

\* ------------------------------------------------------------------------
\* The remote data the runs are checked on
\* ------------------------------------------------------------------------
Attachment(id, filename) == [ id |-> id, filename |-> filename ]

AttA == Attachment(<< "a","t","A" >>, << "A",".","P","N","G" >>)
AttB == Attachment(<< "a","t","b" >>, << "b",".","p","n","g" >>)
AttC == Attachment(<< "a","t","c" >>, << "c",".","p","n","g" >>)
AttD == Attachment(<< "a","t","D" >>, << "d",".","p","n","g" >>)
AttE == Attachment(<< "a","t","e" >>, << "e",".","p","n","g" >>)

SitName == << "T",".","s","i","t" >>
ZipName == << "T",".","z","i","p" >>
Name2 == << "v",".","z","i","p" >>
ArchSit == Attachment(<< "a","t","s" >>, SitName)
ArchZip == Attachment(<< "a","t","z" >>, ZipName)

RawRecord(n, a, y, ab, sh, ks, af, an2) ==
  [ Name |-> n, Authors |-> a, Year |-> y, About |-> ab, Showcase |-> sh,
    KsaSampler |-> ks, ArchiveFile |-> af, ArchiveName2 |-> an2,
    Created |-> Some(<< "2","0" >>) ]

\* a complete record, archive named by the .sit attachment
RecValid ==
  RawRecord(Some(<< "n","1" >>), Undefined, Some(<< "9","8" >>),
            << AttA >>, << AttB >>, << AttC >>, << ArchSit >>, Undefined)
\* a complete record sharing two attachments with RecValid, archive named by
\* the fallback
RecValid2 ==
  RawRecord(Some(<< "n","2" >>), Some(<< "m","e" >>), Undefined,
            << AttE >>, << AttB >>, << AttC >>, << ArchZip >>, Some(Name2))
\* a record without Name that carries an attachment of its own
RecNoName ==
  RawRecord(Undefined, Some(<< "m","e" >>), Some(<< "9","8" >>),
            << AttD >>, << >>, << >>, << ArchSit >>, Undefined)

RecordPool == { RecValid, RecValid2, RecNoName }

\* an attachment whose id differs from AttA's in letter case only
AttLower == Attachment(<< "a","t","a" >>, << "a",".","p","n","g" >>)

\* a complete record that shares the archive and the about attachment of
\* RecValid and carries that attachment as its showcase too
RecTwin ==
  RawRecord(Some(<< "n","3" >>), Undefined, Some(<< "9","8" >>),
            << AttA >>, << AttA >>, << AttC >>, << ArchSit >>, Undefined)
\* a record without Name whose archive no other record names
RecLowerId ==
  RawRecord(Undefined, Some(<< "m","e" >>), Undefined,
            << AttLower >>, << >>, << >>, << >>, Some(Name2))
\* a table whose records share attachment ids, an archive and a path
SharingTable == << RecValid, RecTwin, RecLowerId >>

\* records without Name that differ in their author and carry one attachment
FillTag == << "a","b","c","d","e","f","g","h","i","j","k","l" >>
Fill(n) ==
  RawRecord(Undefined, Some(<< "m", FillTag[n] >>), Undefined,
            << AttD >>, << >>, << >>, << >>, Some(Name2))

\* every combination of present and absent fields of one record
FieldPool ==
  { RawRecord(n, a, y, ab, sh, ks, af, an2) :
      n \in { Undefined, Some(<< "n","1" >>) },
      a \in { Undefined, Some(<< "m","e" >>) },
      y \in { Undefined, Some(<< "9","8" >>) },
      ab \in { << >>, << AttA >> },
      sh \in { << >>, << AttB >> },
      ks \in { << >>, << AttC >> },
      af \in { << >>, << ArchSit >>, << ArchZip >> },
      an2 \in { Undefined, Some(<< >>), Some(Name2) } }

\* the tables of up to n different records of S (a record occurs once in a table)
SeqsUpTo(S, n) ==
  { t \in UNION { [1..k -> S] : k \in 1..n } :
      \A i, j \in DOMAIN t : i # j => t[i] # t[j] }

\* the archive names a record of the pools can resolve to
ArchiveNames == { SitName, Name2 }

\* archive contents and their MD5 digests (hex text)
ContentV1 == << "c","1" >>
ContentV2 == << "c","2" >>
Contents == { ContentV1, ContentV2 }
Md5(content) == IF content = ContentV1 THEN << "d","1","e" >>
                ELSE IF content = ContentV2 THEN << "f","2","0" >>
                ELSE << "0","0","0" >>

\* the body the file server answers a request for a missing file with
NotFoundBody == << "N","o","t"," ","F","o","u","n","d" >>

\* manifest texts: <hex-checksum><separator><archive name>
Separators == { << " "," " >>, << "\t" >>, << "\n" >> }
Manifest(content, sep, name) == Md5(content) \o sep \o name \o << "\n" >>

\* what the file server holds for one archive; manifest = {} is a missing .md5
RemoteArchive(content, manifest) == [ content |-> content, manifest |-> manifest ]

\* what the archives directory holds for one archive
NoLocal == [ file |-> Undefined, md5 |-> Undefined ]

\* the files all attachment stages of a completed run leave for these records
WarmDisk(v, raws) ==
  { FilePath(v, RolePrefix(r), Val(RoleAttachment(NormalizeRecord(raws[i]), r))) :
      <<i, r>> \in { x \in (1..Len(raws)) \X Roles :
                       RoleAttachment(NormalizeRecord(raws[x[1]]), x[2]) # Undefined } }

\* ------------------------------------------------------------------------
\* State
\* ------------------------------------------------------------------------
VARIABLES
  variant,     \* which script runs: "dump" (dump-airtable.ts) or "part0" (part_000)
  records,     \* the remote table: what grabRawRecords returns
  remoteArch,  \* the file server: archive name -> content and manifest
  disk,        \* the attachment files on disk (set of paths)
  stale,       \* the files on disk written before their remote content changed
  archFiles,   \* the archives directory: archive name -> file and .md5 sibling
  snapshot,    \* the snapshot file: {} or {sequence of resolved records}
  phase,       \* "idle", "attach", "write", "archives", "done", "aborted"
  runNo,       \* number of runs started
  normalizedRecords,
  existingAttachments,
  task,        \* per record: the position of its flatMapLimit task
  filePaths,   \* results of the finished tasks
  normalizedRecordsWithFilePaths,
  archives,    \* the sequence handed to mapLimit
  arch,        \* per archive index: the position of its downloadArchive call
  run          \* history of the current run (what it fetched, deleted, started from)

vars == << variant, records, remoteArch, disk, stale, archFiles, snapshot, phase, runNo,
           normalizedRecords, existingAttachments, task, filePaths,
           normalizedRecordsWithFilePaths, archives, arch, run >>

\* concurrency limit of flatMapLimit and mapLimit
Limit == 10

NoRun ==
  [ downloads |-> {}, deleted |-> {}, listed |-> {}, fetchFailed |-> FALSE,
    wrote |-> FALSE, snapshotBefore |-> Undefined, remoteChanged |-> FALSE,
    followsUnchanged |-> FALSE, archBefore |-> [a \in ArchiveNames |-> NoLocal] ]

InitCommon ==
  /\ snapshot = Undefined
  /\ phase = "idle"
  /\ runNo = 0
  /\ normalizedRecords = << >>
  /\ existingAttachments = {}
  /\ task = << >>
  /\ filePaths = << >>
  /\ normalizedRecordsWithFilePaths = << >>
  /\ archives = << >>
  /\ arch = << >>
  /\ run = NoRun

\* the file server holds every archive with a well-formed manifest
GoodRemote ==
  [a \in ArchiveNames |-> RemoteArchive(ContentV1, Some(Manifest(ContentV1, << " "," " >>, a)))]

\* the attachment files the run finds: none, those an earlier run of the same
\* script left, or those a run of part_000 left in its directory; the remote
\* content of the attachments may have changed since they were written
Init ==
  /\ variant \in { "dump", "part0" }
  /\ records \in SeqsUpTo(RecordPool, MaxRecords)
  /\ disk \in { {}, WarmDisk(variant, records), WarmDisk("part0", records) }
  /\ stale \in { {}, disk }
  /\ remoteArch = GoodRemote
  /\ archFiles = [a \in ArchiveNames |-> NoLocal]
  /\ InitCommon

\* ------------------------------------------------------------------------
\* The attachment stage: async.flatMapLimit(normalizedRecords, 10, ...)
\* ------------------------------------------------------------------------
Min(S) == CHOOSE x \in S : \A y \in S : x <= y

\* the first role from r on whose attachment is present (4: none is left);
\* downloadAttachment returns at once for an absent attachment
NextRole(rec, r) ==
  IF \E q \in Roles : q >= r /\ RoleAttachment(rec, q) # Undefined
  THEN Min({ q \in Roles : q >= r /\ RoleAttachment(rec, q) # Undefined })
  ELSE 4

IdleTask == [ pc |-> "idle", role |-> 0, res |-> << >> ]

\* a task runs up to the fs.exists of its first present attachment
StartedTask(rec) ==
  IF NextRole(rec, 1) = 4
  THEN [ pc |-> "done", role |-> 4, res |-> << >> ]
  ELSE [ pc |-> "check", role |-> NextRole(rec, 1), res |-> << >> ]

InFlight(t) == { i \in DOMAIN t : t[i].pc \in { "check", "fetch" } }

\* mutant: every task is started at once, whatever the limit
RefillUnbounded(t, recs) ==
  [i \in DOMAIN t |-> IF t[i].pc = "idle" THEN StartedTask(recs[i]) ELSE t[i]]

\* the pool starts tasks in order of the collection while fewer than Limit run
RECURSIVE Refill(_, _)
Refill(t, recs) ==
  LET idle == { i \in DOMAIN t : t[i].pc = "idle" }
  IN IF idle = {} \/ Cardinality(InFlight(t)) >= Limit
     THEN t
     ELSE Refill([t EXCEPT ![Min(idle)] = StartedTask(recs[Min(idle)])], recs)

\* grabRawRecords, the glob, records.map and the start of flatMapLimit
StartRun ==
  /\ phase \in { "idle", "done", "aborted" }
  /\ runNo < MaxRuns
  /\ runNo' = runNo + 1
  /\ normalizedRecords' = NormalizedRecords(records)
  /\ existingAttachments' = GlobSync(disk)
  /\ task' = Refill([i \in 1..Len(records) |-> IdleTask], NormalizedRecords(records))
  /\ filePaths' = << >>
  /\ normalizedRecordsWithFilePaths' = << >>
  /\ archives' = << >>
  /\ arch' = << >>
  /\ phase' = "attach"
  /\ run' = [ NoRun EXCEPT !.listed = GlobSync(disk),
                           !.snapshotBefore = snapshot,
                           !.followsUnchanged = (phase = "done" /\ ~ run.remoteChanged),
                           !.archBefore = archFiles ]
  /\ UNCHANGED << variant, records, remoteArch, disk, stale, archFiles, snapshot >>

\* task i goes on after its downloadAttachment call of role r returned d
\* (a sequence of zero or one descriptors); a finished task hands its
\* results to flatMapLimit and frees its slot of the pool
TaskAfter(i, d) ==
  LET t == task[i]
      rec == normalizedRecords[i]
      r == NextRole(rec, t.role + 1)
  IN IF r = 4
     THEN /\ task' = Refill([task EXCEPT ![i] = [ pc |-> "done", role |-> 4,
                                                   res |-> t.res \o d ]],
                            normalizedRecords)
          /\ filePaths' = filePaths \o t.res \o d
     ELSE /\ task' = [task EXCEPT ![i] = [ pc |-> "check", role |-> r,
                                           res |-> t.res \o d ]]
          /\ UNCHANGED filePaths

CurrentAttachment(i) == Val(RoleAttachment(normalizedRecords[i], task[i].role))
CurrentPath(i) == FilePath(variant, RolePrefix(task[i].role), CurrentAttachment(i))
CurrentDescriptor(i) == Descriptor(variant, RolePrefix(task[i].role), CurrentAttachment(i))

\* mutant: the file is fetched again whether or not it exists
CheckExistsRefetches(i) ==
  /\ phase = "attach"
  /\ task[i].pc = "check"
  /\ task' = [task EXCEPT ![i].pc = "fetch"]
  /\ UNCHANGED << variant, records, remoteArch, disk, stale, archFiles, snapshot, phase, runNo,
                  normalizedRecords, existingAttachments, filePaths,
                  normalizedRecordsWithFilePaths, archives, arch, run >>

\* downloadAttachment: await fs.exists(filepath)
CheckExists(i) ==
  /\ phase = "attach"
  /\ task[i].pc = "check"
  /\ IF CurrentPath(i) \in disk
     THEN TaskAfter(i, << CurrentDescriptor(i) >>)
     ELSE /\ task' = [task EXCEPT ![i].pc = "fetch"]
          /\ UNCHANGED filePaths
  /\ UNCHANGED << variant, records, remoteArch, disk, stale, archFiles, snapshot, phase, runNo,
                  normalizedRecords, existingAttachments,
                  normalizedRecordsWithFilePaths, archives, arch, run >>

\* downloadAttachment: the fetch succeeds and the file is written
FetchWrite(i) ==
  /\ phase = "attach"
  /\ task[i].pc = "fetch"
  /\ disk' = disk \cup { CurrentPath(i) }
  /\ stale' = stale \ { CurrentPath(i) }
  /\ run' = [run EXCEPT !.downloads = @ \cup { CurrentPath(i) }]
  /\ TaskAfter(i, << CurrentDescriptor(i) >>)
  /\ UNCHANGED << variant, records, remoteArch, archFiles, snapshot, phase, runNo,
                  normalizedRecords, existingAttachments,
                  normalizedRecordsWithFilePaths, archives, arch >>

\* mutant: a failed fetch is swallowed and the attachment skipped
FetchFailSkips(i) ==
  /\ phase = "attach"
  /\ task[i].pc = "fetch"
  /\ run' = [run EXCEPT !.fetchFailed = TRUE]
  /\ TaskAfter(i, << >>)
  /\ UNCHANGED << variant, records, remoteArch, disk, stale, archFiles, snapshot, phase, runNo,
                  normalizedRecords, existingAttachments,
                  normalizedRecordsWithFilePaths, archives, arch >>

\* downloadAttachment: fetch rejects; nothing catches it, so the task, then
\* flatMapLimit, then main reject and the process ends
FetchFail(i) ==
  /\ phase = "attach"
  /\ task[i].pc = "fetch"
  /\ run' = [run EXCEPT !.fetchFailed = TRUE]
  /\ phase' = "aborted"
  /\ UNCHANGED << variant, records, remoteArch, disk, stale, archFiles, snapshot, runNo,
                  normalizedRecords, existingAttachments, task, filePaths,
                  normalizedRecordsWithFilePaths, archives, arch >>

\* ------------------------------------------------------------------------
\* Resolver, reconciler, snapshot writer
\* ------------------------------------------------------------------------
\* mutant: the reconciler also prunes the archives no valid record names
ResolveAndReconcilePrunesArchives ==
  /\ phase = "attach"
  /\ \A i \in DOMAIN task : task[i].pc = "done"
  /\ LET res == NormalizedRecordsWithFilePaths(normalizedRecords, filePaths)
         del == FilesToDelete(existingAttachments, res)
     IN /\ normalizedRecordsWithFilePaths' = res
        /\ disk' = disk \ del
        /\ stale' = stale \ del
        /\ run' = [run EXCEPT !.deleted = del]
        /\ archFiles' = [a \in ArchiveNames |->
                           IF \E i \in 1..Len(res) : res[i].archiveFilename = Some(a)
                           THEN archFiles[a] ELSE NoLocal]
  /\ phase' = "write"
  /\ UNCHANGED << variant, records, remoteArch, snapshot, runNo,
                  normalizedRecords, existingAttachments, task, filePaths, archives, arch >>

\* flatMapLimit has resolved: the records are resolved and filtered, and the
\* listed files no valid record references are removed
ResolveAndReconcile ==
  /\ phase = "attach"
  /\ \A i \in DOMAIN task : task[i].pc = "done"
  /\ LET res == NormalizedRecordsWithFilePaths(normalizedRecords, filePaths)
         del == FilesToDelete(existingAttachments, res)
     IN /\ normalizedRecordsWithFilePaths' = res
        /\ disk' = disk \ del
        /\ stale' = stale \ del
        /\ run' = [run EXCEPT !.deleted = del]
  /\ phase' = "write"
  /\ UNCHANGED << variant, records, remoteArch, archFiles, snapshot, runNo,
                  normalizedRecords, existingAttachments, task, filePaths, archives, arch >>

IdleArch == [ pc |-> "idle", md5FileContent |-> << >>, fetched |-> FALSE,
              outcome |-> "none" ]
StartedArch == [ IdleArch EXCEPT !.pc = "manifest" ]

ArchInFlight(t) ==
  { k \in DOMAIN t : t[k].pc \in { "manifest", "exists", "content", "writeMd5" } }

\* mapLimit starts the next archive when a slot of the pool is free
StartNextArch(t) ==
  LET idle == { k \in DOMAIN t : t[k].pc = "idle" }
  IN IF idle = {} \/ Cardinality(ArchInFlight(t)) >= Limit
     THEN t
     ELSE [t EXCEPT ![Min(idle)] = StartedArch]

\* fs.writeFile of the snapshot; dump-airtable.ts then starts async.mapLimit
\* over the archives and does not await it
WriteSnapshot ==
  /\ phase = "write"
  /\ snapshot' = Some(normalizedRecordsWithFilePaths)
  /\ run' = [run EXCEPT !.wrote = TRUE]
  /\ IF variant = "dump"
     THEN LET as == Archives(normalizedRecordsWithFilePaths)
          IN /\ archives' = as
             /\ arch' = [k \in 1..Len(as) |-> IF k <= Limit THEN StartedArch ELSE IdleArch]
             /\ phase' = IF Len(as) = 0 THEN "done" ELSE "archives"
     ELSE /\ phase' = "done"
          /\ UNCHANGED << archives, arch >>
  /\ UNCHANGED << variant, records, remoteArch, disk, stale, archFiles, runNo,
                  normalizedRecords, existingAttachments, task, filePaths,
                  normalizedRecordsWithFilePaths >>

\* ------------------------------------------------------------------------
\* Archive Mirror: downloadArchive(archives[k])
\* ------------------------------------------------------------------------
\* an operation of the pool has ended: the next one starts, and the run is
\* over when none is left
ArchAfter(t) ==
  /\ arch' = StartNextArch(t)
  /\ phase' = IF \A k \in DOMAIN t : StartNextArch(t)[k].pc = "done"
              THEN "done" ELSE "archives"

\* the text the file server answers the manifest request with; fetch does not
\* reject on a missing file, text() is then the body of the error page
ManifestResponse(a) ==
  IF remoteArch[a].manifest = Undefined THEN NotFoundBody ELSE Val(remoteArch[a].manifest)

\* await fetch(`.../${archiveFilename}.md5`); await md5File.text()
ArchManifest(k) ==
  /\ phase = "archives"
  /\ arch[k].pc = "manifest"
  /\ arch' = [arch EXCEPT ![k].pc = "exists",
                          ![k].md5FileContent = ManifestResponse(archives[k])]
  /\ UNCHANGED << variant, records, remoteArch, disk, stale, archFiles, snapshot, phase, runNo,
                  normalizedRecords, existingAttachments, task, filePaths,
                  normalizedRecordsWithFilePaths, archives, run >>

\* mutant: an existing local copy is taken as up to date without comparing
LocalIsCurrentIfPresent(a, md5FileContent) ==
  archFiles[a].file # Undefined

\* fs.exists(filepath) && getMd5HashOfFile(filepath) === md5Remote
LocalIsCurrent(a, md5FileContent) ==
  /\ archFiles[a].file # Undefined
  /\ Md5(Val(archFiles[a].file)) = Md5Remote(md5FileContent)

\* the exists test and the checksum comparison: skip, or go on to the fetch
ArchCompare(k) ==
  /\ phase = "archives"
  /\ arch[k].pc = "exists"
  /\ IF LocalIsCurrent(archives[k], arch[k].md5FileContent)
     THEN ArchAfter([arch EXCEPT ![k].pc = "done", ![k].outcome = "skipped"])
     ELSE /\ arch' = [arch EXCEPT ![k].pc = "content"]
          /\ UNCHANGED phase
  /\ UNCHANGED << variant, records, remoteArch, disk, stale, archFiles, snapshot, runNo,
                  normalizedRecords, existingAttachments, task, filePaths,
                  normalizedRecordsWithFilePaths, archives, run >>

\* await fetch(`.../${archiveFilename}`); fs.writeFile(filepath, ...)
ArchFetchWrite(k) ==
  /\ phase = "archives"
  /\ arch[k].pc = "content"
  /\ archFiles' = [archFiles EXCEPT ![archives[k]].file = Some(remoteArch[archives[k]].content)]
  /\ arch' = [arch EXCEPT ![k].pc = "writeMd5", ![k].fetched = TRUE]
  /\ UNCHANGED << variant, records, remoteArch, disk, stale, snapshot, phase, runNo,
                  normalizedRecords, existingAttachments, task, filePaths,
                  normalizedRecordsWithFilePaths, archives, run >>

\* fs.writeFile(`${filepath}.md5`, md5FileContent); "[INFO] downloaded"
ArchWriteMd5(k) ==
  /\ phase = "archives"
  /\ arch[k].pc = "writeMd5"
  /\ archFiles' = [archFiles EXCEPT ![archives[k]].md5 = Some(arch[k].md5FileContent)]
  /\ ArchAfter([arch EXCEPT ![k].pc = "done", ![k].outcome = "downloaded"])
  /\ UNCHANGED << variant, records, remoteArch, disk, stale, snapshot, runNo,
                  normalizedRecords, existingAttachments, task, filePaths,
                  normalizedRecordsWithFilePaths, archives, run >>

\* the steps of downloadArchive that can throw: both fetches, the checksum
\* of an existing file, both writes
CanFail(k) ==
  \/ arch[k].pc \in { "manifest", "content", "writeMd5" }
  \/ arch[k].pc = "exists" /\ archFiles[archives[k]].file # Undefined

\* mutant: no try/catch; the rejection leaves mapLimit and, unhandled, ends
\* the process with the other operations in flight
ArchFailUncaught(k) ==
  /\ phase = "archives"
  /\ CanFail(k)
  /\ arch' = [arch EXCEPT ![k].pc = "done", ![k].outcome = "error"]
  /\ phase' = "aborted"
  /\ UNCHANGED << variant, records, remoteArch, disk, stale, archFiles, snapshot, runNo,
                  normalizedRecords, existingAttachments, task, filePaths,
                  normalizedRecordsWithFilePaths, archives, run >>

\* catch (e): "[ERROR] could not download"; downloadArchive returns normally
ArchFail(k) ==
  /\ phase = "archives"
  /\ CanFail(k)
  /\ ArchAfter([arch EXCEPT ![k].pc = "done", ![k].outcome = "error"])
  /\ UNCHANGED << variant, records, remoteArch, disk, stale, archFiles, snapshot, runNo,
                  normalizedRecords, existingAttachments, task, filePaths,
                  normalizedRecordsWithFilePaths, archives, run >>

\* ------------------------------------------------------------------------
\* The environment between two runs
\* ------------------------------------------------------------------------
RemoveAt(s, k) == SubSeq(s, 1, k - 1) \o SubSeq(s, k + 1, Len(s))

\* a record is deleted from the remote table
RemoteDelete(k) ==
  /\ phase \in { "done", "aborted" }
  /\ runNo < MaxRuns
  /\ k \in 1..Len(records)
  /\ records' = RemoveAt(records, k)
  /\ run' = [run EXCEPT !.remoteChanged = TRUE]
  /\ UNCHANGED << variant, remoteArch, disk, stale, archFiles, snapshot, phase, runNo,
                  normalizedRecords, existingAttachments, task, filePaths,
                  normalizedRecordsWithFilePaths, archives, arch >>

Next ==
  \/ StartRun
  \/ \E i \in DOMAIN task : CheckExists(i)
  \/ \E i \in DOMAIN task : FetchWrite(i)
  \/ \E i \in DOMAIN task : FetchFail(i)
  \/ ResolveAndReconcile
  \/ WriteSnapshot
  \/ \E k \in DOMAIN arch : ArchManifest(k)
  \/ \E k \in DOMAIN arch : ArchCompare(k)
  \/ \E k \in DOMAIN arch : ArchFetchWrite(k)
  \/ \E k \in DOMAIN arch : ArchWriteMd5(k)
  \/ \E k \in DOMAIN arch : ArchFail(k)
  \/ \E k \in 1..MaxRecords : RemoteDelete(k)

Spec == Init /\ [][Next]_vars

\* one record, every combination of its fields
InitFields ==
  /\ variant \in { "dump", "part0" }
  /\ records \in [1..1 -> FieldPool]
  /\ disk \in { {}, WarmDisk(variant, records) }
  /\ stale = {}
  /\ remoteArch = GoodRemote
  /\ archFiles = [a \in ArchiveNames |-> NoLocal]
  /\ InitCommon

SpecFields == InitFields /\ [][Next]_vars

\* what the archives directory can hold for an archive before a run
LocalArchives ==
  { NoLocal } \cup
  { [ file |-> Some(c), md5 |-> Some(Manifest(c, << " "," " >>, a)) ] :
      c \in Contents, a \in ArchiveNames }

\* what the file server can hold for archive a
RemoteArchives(a) ==
  { RemoteArchive(ContentV1, m) :
      m \in { Undefined } \cup { Some(Manifest(ContentV1, sep, a)) : sep \in Separators } }

\* two valid records with two archives, no attachment on disk yet; the file
\* server and the archives directory in every combination
InitArch ==
  /\ variant = "dump"
  /\ records = << RecValid, RecValid2 >>
  /\ disk = {}
  /\ stale = {}
  /\ remoteArch \in { f \in [ArchiveNames -> UNION { RemoteArchives(a) : a \in ArchiveNames }] :
                        \A a \in ArchiveNames : f[a] \in RemoteArchives(a) }
  /\ archFiles \in { f \in [ArchiveNames -> LocalArchives] :
                       \A a \in ArchiveNames :
                         f[a].md5 # Undefined => EndsWith(Val(f[a].md5), a \o << "\n" >>) }
  /\ InitCommon

SpecArch == InitArch /\ [][Next]_vars

\* a table of one record more than flatMapLimit runs at once
OverfullTable == [n \in 1..(Limit + 1) |-> Fill(n)]

\* dump-airtable.ts on the overfull table with the attachments an earlier run
\* left, or on the sharing table with those or none
InitTables ==
  /\ variant = "dump"
  /\ \/ records = OverfullTable /\ disk = WarmDisk(variant, records)
     \/ records = SharingTable /\ disk \in { {}, WarmDisk(variant, records) }
  /\ stale = {}
  /\ remoteArch = GoodRemote
  /\ archFiles = [a \in ArchiveNames |-> NoLocal]
  /\ InitCommon

SpecTables == InitTables /\ [][Next]_vars

\* ------------------------------------------------------------------------
\* Properties
\* ------------------------------------------------------------------------
\* a field is present: it holds a non-empty value
Present(o) == o # Undefined /\ o # Some(<< >>)

\* the paths the records of a snapshot reference
Referenced(res) ==
  UNION { res[i].about \cup res[i].ksaSampler \cup res[i].showcase : i \in 1..Len(res) }

\* the .map(...) of the resolver before any filter
ResolvedAll == [i \in 1..Len(normalizedRecords) |->
                  ResolveRecord(normalizedRecords[i], filePaths)]

\* validity as section 3 of the specification words it
ValidAsSpecified(f) ==
  /\ Present(f.name)
  /\ (Present(f.year) \/ Present(f.authors))
  /\ Present(f.about) /\ Present(f.showcase) /\ Present(f.ksaSampler)
  /\ Present(f.archiveFilename)

\* C1: the snapshot a run writes holds exactly the resolved records that are
\* valid (name, one of year/authors, about, showcase, ksaSampler and
\* archiveFilename present), in particular none without Name and none without
\* both year and authors, and every valid one.
C1_SnapshotIsTheValidRecords ==
  run.wrote =>
    /\ snapshot # Undefined
    /\ Val(snapshot) = SelectSeq(ResolvedAll, ValidAsSpecified)
    /\ \A p \in 1..Len(Val(snapshot)) :
         /\ Val(snapshot)[p].name # Undefined
         /\ Val(snapshot)[p].year # Undefined \/ Val(snapshot)[p].authors # Undefined

\* a run wrote an empty snapshot because its only record, complete otherwise,
\* has neither year nor authors
C1_Witness ==
  /\ run.wrote
  /\ Len(normalizedRecords) = 1
  /\ normalizedRecords[1].name # Undefined
  /\ normalizedRecords[1].year = Undefined
  /\ normalizedRecords[1].authors = Undefined
  /\ \A r \in Roles : RoleAttachment(normalizedRecords[1], r) # Undefined
  /\ ArchiveName(normalizedRecords[1]) # Undefined
  /\ Val(snapshot) = << >>

\* C2: the reconciler removes exactly the listed files that no valid resolved
\* record references: after its step the disk is the disk before minus
\* (existing minus referenced), and nothing else changed.
C2_DeletesExistingMinusReferenced ==
  [][ (phase = "attach" /\ phase' = "write") =>
        /\ disk' = disk \ (existingAttachments \ Referenced(normalizedRecordsWithFilePaths'))
        /\ run'.deleted = existingAttachments \ Referenced(normalizedRecordsWithFilePaths')
        /\ existingAttachments = run.listed ]_vars

\* the reconciler has removed a listed file and kept another listed file
C2_Witness ==
  /\ phase = "write"
  /\ run.deleted # {}
  /\ run.listed \ run.deleted # {}
  /\ (run.listed \ run.deleted) \subseteq disk

\* C3: at the end of a run every file of the directory downloadAttachment
\* writes into is referenced by a valid resolved record of that run.
C3_NoStaleAttachment ==
  phase = "done" =>
    \A p \in disk :
      StartsWith(p, AttachmentsDir(variant)) =>
        p \in Referenced(normalizedRecordsWithFilePaths)

\* C4: a run that follows a completed run, with the remote records unchanged
\* and the disk as that run left it, downloads nothing and writes the same
\* snapshot.
C4_SecondRunIsIdle ==
  (run.followsUnchanged /\ phase # "aborted") =>
    /\ run.downloads = {}
    /\ \A i \in DOMAIN task : task[i].pc # "fetch"
    /\ run.wrote => snapshot = run.snapshotBefore

\* the checksum of the local copy a mirror operation found, against the
\* checksum the operation took from the manifest it fetched
LocalMatched(k) ==
  LET before == run.archBefore[archives[k]]
  IN /\ before.file # Undefined
     /\ Md5(Val(before.file)) = Md5Remote(arch[k].md5FileContent)

\* C5: a mirror operation that found a local copy whose MD5 equals the
\* checksum of the fetched manifest fetches no content and writes neither
\* file; one that found no copy or another checksum and ends without error
\* has fetched the archive and written the archive and the manifest.
C5_SkipOrRewrite ==
  \A k \in DOMAIN arch :
    LET a == archives[k]
    IN /\ (arch[k].pc \in { "content", "writeMd5", "done" } /\ LocalMatched(k)) =>
            /\ ~ arch[k].fetched
            /\ archFiles[a] = run.archBefore[a]
            /\ arch[k].outcome \in { "skipped", "error" }
       /\ (arch[k].pc = "done" /\ arch[k].outcome # "error" /\ ~ LocalMatched(k)) =>
            /\ arch[k].outcome = "downloaded"
            /\ arch[k].fetched
            /\ archFiles[a].file = Some(remoteArch[a].content)
            /\ archFiles[a].md5 = Some(arch[k].md5FileContent)
       /\ arch[k].outcome = "skipped" => LocalMatched(k)

\* one archive was skipped on equal checksums while another, found with a
\* different checksum, was fetched and rewritten together with its manifest
C5_Witness ==
  \E k, j \in DOMAIN arch :
    /\ arch[k].outcome = "skipped" /\ LocalMatched(k)
    /\ arch[j].outcome = "downloaded"
    /\ run.archBefore[archives[j]].file # Undefined
    /\ run.archBefore[archives[j]] # archFiles[archives[j]]

\* the steps a mirror operation in flight can take
CanProceed(j) ==
  ENABLED (ArchManifest(j) \/ ArchCompare(j) \/ ArchFetchWrite(j) \/ ArchWriteMd5(j))

\* C6: when the mirror operation of an archive has failed, the run is not
\* aborted, every other archive of the run has been started, and each of them
\* has ended or can take its next step.
C6_ArchiveFaultIsolation ==
  \A k \in DOMAIN arch :
    arch[k].outcome = "error" =>
      /\ phase \in { "archives", "done" }
      /\ \A j \in DOMAIN arch \ {k} :
           /\ arch[j].pc # "idle"
           /\ arch[j].pc = "done" \/ CanProceed(j)
      /\ phase = "done" => \A j \in DOMAIN arch : arch[j].outcome # "none"

\* the run ended with one archive failed and another one downloaded and
\* equal to the remote copy
C6_Witness ==
  /\ phase = "done"
  /\ \E k, j \in DOMAIN arch :
       /\ arch[k].outcome = "error"
       /\ arch[j].outcome = "downloaded"
       /\ archFiles[archives[j]].file = Some(remoteArch[archives[j]].content)

\* C7: a run in which an attachment fetch failed is aborted: the reconciler
\* has deleted nothing, the snapshot is the one the run found, no mirror
\* operation exists, and the task of the failed fetch neither retried nor
\* finished.
C7_FetchFailureIsFatal ==
  run.fetchFailed =>
    /\ phase = "aborted"
    /\ run.deleted = {}
    /\ disk \cap run.listed = run.listed
    /\ ~ run.wrote
    /\ snapshot = run.snapshotBefore
    /\ arch = << >>
    /\ \E i \in DOMAIN task : task[i].pc = "fetch"

\* a fetch failed in a run that found a snapshot and listed files
C7_Witness ==
  /\ run.fetchFailed
  /\ phase = "aborted"
  /\ run.snapshotBefore # Undefined
  /\ run.listed # {}

\* the raw fields a resolved record carries over unchanged
SameRecord(f, rec) ==
  /\ f.name = rec.name /\ f.authors = rec.authors /\ f.year = rec.year
  /\ f.archiveFileName2 = rec.archiveFileName2 /\ f.created = rec.created

\* C8: the snapshot lists the valid records in the order of the raw records:
\* its entries are the records of a strictly increasing selection of input
\* positions.
C8_SnapshotKeepsInputOrder ==
  run.wrote =>
    \E f \in [1..Len(Val(snapshot)) -> 1..Len(normalizedRecords)] :
      /\ \A p, q \in 1..Len(Val(snapshot)) : p < q => f[p] < f[q]
      /\ \A p \in 1..Len(Val(snapshot)) :
           SameRecord(Val(snapshot)[p], normalizedRecords[f[p]])

\* two different records were written in input order although the task of
\* the second record finished first
C8_Witness ==
  /\ run.wrote
  /\ Len(Val(snapshot)) = 2
  /\ Val(snapshot)[1].name # Val(snapshot)[2].name
  /\ SameRecord(Val(snapshot)[1], normalizedRecords[1])
  /\ Some(filePaths[1].id) = { att.id : att \in normalizedRecords[2].about }
  /\ Some(filePaths[1].id) # { att.id : att \in normalizedRecords[1].about }

\* archive name derivation as the specification words it
ArchiveNameAsSpecified(rec) ==
  IF rec.archiveFile # Undefined /\ EndsWith(Val(rec.archiveFile).filename, DotSit)
  THEN Some(Val(rec.archiveFile).filename)
  ELSE IF rec.archiveFileName2 = Undefined \/ rec.archiveFileName2 = Some(<< >>)
       THEN Undefined
       ELSE rec.archiveFileName2

\* C9: archiveFilename is archiveFile.filename when that ends in ".sit",
\* otherwise archiveFileName2, and absent when that is absent or empty.
C9_ArchiveNameDerivation ==
  /\ \A i \in DOMAIN normalizedRecords :
       ArchiveName(normalizedRecords[i]) = ArchiveNameAsSpecified(normalizedRecords[i])
  /\ (phase \in { "write", "archives", "done" } /\ Len(normalizedRecords) = 1) =>
       /\ \A p \in 1..Len(normalizedRecordsWithFilePaths) :
            normalizedRecordsWithFilePaths[p].archiveFilename
              = ArchiveNameAsSpecified(normalizedRecords[1])
       /\ ArchiveNameAsSpecified(normalizedRecords[1]) = Undefined
            => normalizedRecordsWithFilePaths = << >>

\* a record with a .zip attachment and a fallback name was written with the
\* fallback name
C9_Witness ==
  /\ run.wrote
  /\ Len(normalizedRecords) = 1
  /\ normalizedRecords[1].archiveFile = Some(ArchZip)
  /\ normalizedRecords[1].archiveFileName2 = Some(Name2)
  /\ Len(Val(snapshot)) = 1
  /\ Val(snapshot)[1].archiveFilename = Some(Name2)

\* the tasks that are inside a downloadAttachment call
Downloading == { i \in DOMAIN task : task[i].pc \in { "check", "fetch" } }

C11_ArchivesNeverPruned ==
  [][ \A a \in ArchiveNames :
        /\ archFiles[a].file # Undefined => archFiles'[a].file # Undefined
        /\ archFiles[a].md5 # Undefined => archFiles'[a].md5 # Undefined ]_vars

\* a second run has ended that mirrors no archive of this name any more, and
\* the archive and the manifest the run found are still there
C11_Witness ==
  /\ phase = "done"
  /\ runNo >= 2
  /\ run.wrote
  /\ \E a \in ArchiveNames :
       /\ \A k \in DOMAIN archives : archives[k] # a
       /\ run.archBefore[a].file # Undefined
       /\ run.archBefore[a].md5 # Undefined
       /\ archFiles[a] = run.archBefore[a]

\* the roles in which a record has an attachment
PresentRoles(rec) == { r \in Roles : RoleAttachment(rec, r) # Undefined }

\* C12: a downloadAttachment call whose target path exists returns the
\* descriptor {id, filepath, filename} with no fetch and no write, also when
\* the file is older than the remote content; a call for an absent attachment
\* returns nothing with no fetch and no write, so a finished task holds one
\* descriptor for each attachment its record has and has fetched nothing else.
C12_ExistingFileIsNeverRefetched ==
  [][ \A i \in DOMAIN task :
        ( /\ phase = "attach"
          /\ phase' = "attach"
          /\ task[i].pc = "check"
          /\ task'[i] # task[i]
          /\ CurrentPath(i) \in disk )
        => /\ disk' = disk
           /\ stale' = stale
           /\ run'.downloads = run.downloads
           /\ task'[i].pc # "fetch"
           /\ task'[i].res = Append(task[i].res, CurrentDescriptor(i))
           /\ CurrentDescriptor(i) = [ id |-> CurrentAttachment(i).id,
                                       filepath |-> CurrentPath(i),
                                       filename |-> CurrentAttachment(i).filename ]
           /\ task'[i].pc = "done"
                => Len(task'[i].res) = Cardinality(PresentRoles(normalizedRecords[i])) ]_vars

\* a task holds the descriptor of a file that was on disk with outdated
\* content, and the file is still outdated and was not fetched in this run,
\* while another attachment of the same record is absent
C12_Witness ==
  /\ phase = "attach"
  /\ \E i \in DOMAIN task :
       /\ task[i].pc = "done"
       /\ PresentRoles(normalizedRecords[i]) # Roles
       /\ \E n \in DOMAIN task[i].res :
            /\ task[i].res[n].filepath \in stale
            /\ task[i].res[n].filepath \in disk
            /\ task[i].res[n].filepath \notin run.downloads

\* the tasks whose fetch of an attachment is in flight
Fetching(t) == { i \in DOMAIN t : t[i].pc = "fetch" }

C14_MissingManifestIsAFailure ==
  \A k \in DOMAIN arch :
    ( /\ arch[k].pc = "done"
      /\ remoteArch[archives[k]].manifest = Undefined )
    => arch[k].outcome = "error"

\* the first whitespace-delimited token of a text
FirstToken(s) ==
  LET t == Trim(s)
  IN IF \E i \in 1..Len(t) : t[i] \in Whitespace
     THEN SubSeq(t, 1, (CHOOSE i \in 1..Len(t) :
                          /\ t[i] \in Whitespace
                          /\ \A j \in 1..(i-1) : t[j] \notin Whitespace) - 1)
     ELSE t

\* C15: the remote checksum an operation compares with is the first
\* whitespace-delimited token of the manifest text it fetched, whichever of
\* space, tab and newline separates the checksum from what follows.
C15_ChecksumIsFirstToken ==
  \A k \in DOMAIN arch :
    arch[k].pc \in { "exists", "content", "writeMd5", "done" }
    => Md5Remote(arch[k].md5FileContent) = FirstToken(arch[k].md5FileContent)

\* the archive names of the records of a snapshot
NamesOf(res) == { Val(res[i].archiveFilename) : i \in 1..Len(res) }

\* C16: the mirror of dump-airtable.ts runs one operation for each distinct
\* archive name of the valid resolved records: a name several valid records
\* share has one operation, no two operations (in flight or not) are for the
\* same file, and a name that only records outside the snapshot carry has none.
C16_OneMirrorPerArchiveName ==
  ( variant = "dump" /\ run.wrote )
  => /\ Len(arch) = Len(archives)
     /\ \A k, j \in DOMAIN archives : k # j => archives[k] # archives[j]
     /\ \A k, j \in ArchInFlight(arch) : k # j => archives[k] # archives[j]
     /\ { archives[k] : k \in DOMAIN archives } = NamesOf(Val(snapshot))
     /\ \A i \in DOMAIN normalizedRecords :
          LET name == ArchiveName(normalizedRecords[i])
          IN ( /\ name # Undefined
               /\ \A p \in DOMAIN Val(snapshot) : Val(snapshot)[p].archiveFilename # name )
             => \A k \in DOMAIN archives : archives[k] # Val(name)

\* two valid records share the one archive that was mirrored, by one
\* operation, and a third record outside the snapshot names another archive
C16_Witness ==
  /\ variant = "dump"
  /\ phase = "done"
  /\ run.wrote
  /\ Len(Val(snapshot)) = 2
  /\ Val(snapshot)[1].archiveFilename = Val(snapshot)[2].archiveFilename
  /\ Len(archives) = 1
  /\ arch[1].outcome = "downloaded"
  /\ \E i \in DOMAIN normalizedRecords :
       /\ ArchiveName(normalizedRecords[i]) # Undefined
       /\ Val(ArchiveName(normalizedRecords[i])) # archives[1]

\* the path a resolved record stores for a role
RolePath(f, r) == CASE r = 1 -> f.about
                    [] r = 2 -> f.ksaSampler
                    [] r = 3 -> f.showcase

\* C17: the path the snapshot stores for a role of a record is the path
\* downloadAttachment produced for the attachment the record has in that
\* role, with the prefix of that role, also when an attachment id occurs in
\* several roles or records.
C17_RoleCorrectJoin ==
  run.wrote =>
    \A p \in DOMAIN Val(snapshot) :
      \E i \in DOMAIN normalizedRecords :
        /\ SameRecord(Val(snapshot)[p], normalizedRecords[i])
        /\ \A r \in Roles :
             RolePath(Val(snapshot)[p], r) =
               { FilePath(variant, RolePrefix(r), att) :
                   att \in RoleAttachment(normalizedRecords[i], r) }

\* the downloadAttachment calls of a run that carry an attachment
Requests ==
  { x \in (DOMAIN normalizedRecords) \X Roles : x[2] \in PresentRoles(normalizedRecords[x[1]]) }
RequestAttachment(x) == Val(RoleAttachment(normalizedRecords[x[1]], x[2]))

\* C18: two downloadAttachment calls that differ in the role prefix, in the
\* attachment id, or in the original filename other than by letter case never
\* compute the same target path.
C18_PathInjectivity ==
  \A x, y \in Requests :
    ( \/ RolePrefix(x[2]) # RolePrefix(y[2])
      \/ RequestAttachment(x).id # RequestAttachment(y).id
      \/ ToLowerCase(RequestAttachment(x).filename) # ToLowerCase(RequestAttachment(y).filename) )
    => FilePath(variant, RolePrefix(x[2]), RequestAttachment(x))
         # FilePath(variant, RolePrefix(y[2]), RequestAttachment(y))

\* C19: once a run has written the snapshot, every about, showcase and
\* ksaSampler path of the snapshot is a file on disk, and no file the run has
\* deleted is one a valid record of that run references.
C19_SnapshotPathsExist ==
  /\ run.wrote => Referenced(Val(snapshot)) \subseteq disk
  /\ run.deleted \cap Referenced(normalizedRecordsWithFilePaths) = {}

\* the snapshot of a run references a file the run found and kept and a file
\* the run downloaded, and the run deleted another file it had found
C19_Witness ==
  /\ run.wrote
  /\ run.listed \cap Referenced(Val(snapshot)) # {}
  /\ run.downloads \cap Referenced(Val(snapshot)) # {}
  /\ run.deleted # {}
  /\ Referenced(Val(snapshot)) \subseteq disk

\* C20: when a mirror operation has ended as downloaded, the MD5 of the local
\* archive equals the checksum in the .md5 sibling written with it, and the
\* comparison of a following run against the unchanged file server takes the
\* skip branch.
C20_DownloadedIsConsistent ==
  \A k \in DOMAIN arch :
    arch[k].outcome = "downloaded"
    => LET a == archives[k]
       IN /\ archFiles[a].file # Undefined
          /\ archFiles[a].md5 # Undefined
          /\ Md5(Val(archFiles[a].file)) = FirstToken(Val(archFiles[a].md5))
          /\ LocalIsCurrent(a, ManifestResponse(a))

====
